---- MODULE Spec2Model ----
(***************************************************************************)
(* Heat Kernel and PWP indirect influences / dependences                   *)
(* (algorithms/link_analysis/heatkernel_alg.py and pwp_alg.py).            *)
(*                                                                         *)
(* One call of heatkernel(G, k) or pwp(G, k) is a run of the state         *)
(* machine: the inputs are fixed by Init, each action is one block of the  *)
(* function body, and the run ends either in "returned" (x holds the       *)
(* result dictionary) or in "raised" (exc holds the exception).            *)
(*                                                                         *)
(* Floating point values are modelled as extended rationals <<num, den>>   *)
(* in lowest terms: den > 0 is a finite value, <<0, 0>> is NaN and         *)
(* <<1, 0>>, <<-1, 0>> are +inf and -inf, with the IEEE rules for the      *)
(* operations the code uses.  Rounding is not modelled.                    *)
(***************************************************************************)
EXTENDS Integers, Sequences, FiniteSets, TLC

(* ------------------------------ bounds --------------------------------- *)

\* largest number of nodes of a generated input graph
MaxNodes == 3
\* largest number of edges of a generated input graph
MaxEdges == 2
\* largest edge weight
MaxW == 2
\* largest value of the parameter k
MaxK == 2
\* number of terms after the identity kept of the series of expm
ExpmTerms == 4
\* size of the path graph of the docstring example
PathLen == 4

(* --------------------------- float arithmetic -------------------------- *)

Abs(a) == IF a < 0 THEN -a ELSE a

RECURSIVE Gcd(_, _)
Gcd(a, b) == IF b = 0 THEN a ELSE Gcd(b, a % b)

NaN == <<0, 0>>

\* the float num/den, in lowest terms with a positive denominator
Float(num, den) ==
    IF den = 0
    THEN (IF num = 0 THEN NaN ELSE IF num > 0 THEN <<1, 0>> ELSE <<-1, 0>>)
    ELSE LET g == Gcd(Abs(num), Abs(den))
             s == IF den < 0 THEN -1 ELSE 1
         IN  <<(s * num) \div g, (s * den) \div g>>

FromInt(a) == <<a, 1>>

IsNaN(a) == a = NaN

IsFinite(a) == a[2] > 0

\* a + b
FAdd(a, b) ==
    IF IsNaN(a) \/ IsNaN(b) THEN NaN
    ELSE IF a[2] = 0 /\ b[2] = 0 THEN (IF a[1] = b[1] THEN a ELSE NaN)
    ELSE IF a[2] = 0 THEN a
    ELSE IF b[2] = 0 THEN b
    ELSE Float(a[1] * b[2] + b[1] * a[2], a[2] * b[2])

FNeg(a) == <<-a[1], a[2]>>

\* a - b
FSub(a, b) == FAdd(a, FNeg(b))

\* a / b, numpy semantics: x/0 is +-inf, 0/0 and inf/inf are NaN
FDiv(a, b) ==
    IF IsNaN(a) \/ IsNaN(b) THEN NaN
    ELSE IF a[2] = 0 /\ b[2] = 0 THEN NaN
    ELSE IF b[2] = 0 THEN <<0, 1>>
    ELSE IF a[2] = 0 THEN (IF b[1] < 0 THEN FNeg(a) ELSE a)
    ELSE Float(a[1] * b[2], a[2] * b[1])

(* ------------------------------ matrices ------------------------------- *)

\* indices of an n x n matrix, as range(n)
Range(n) == 0 .. (n - 1)

\* the array <<F(0), ..., F(n - 1)>> as a sequence; index i of the code is
\* element i + 1
Vec(n, F(_)) == [i \in 1 .. n |-> F(i - 1)] \o <<>>

\* the j x j array with F(r, c) in row r, column c
Mat(j, F(_, _)) == Vec(j, LAMBDA r : Vec(j, LAMBDA c : F(r, c)))

\* M[r, c] and v[i] with the indices of the code
At(M, r, c) == M[r + 1][c + 1]
El(v, i) == v[i + 1]

\* sp.eye(j, j)
Eye(j) == Mat(j, LAMBDA r, c : IF r = c THEN 1 ELSE 0)

\* sp.transpose(A)
Transpose(M, j) == Mat(j, LAMBDA r, c : At(M, c, r))

\* M - N, entry by entry
MatSub(M, N, j) == Mat(j, LAMBDA r, c : At(M, r, c) - At(N, r, c))

\* M + N, entry by entry
MatAdd(M, N, j) == Mat(j, LAMBDA r, c : At(M, r, c) + At(N, r, c))

\* k * M
MatScale(kk, M, j) == Mat(j, LAMBDA r, c : kk * At(M, r, c))

RECURSIVE Dot(_, _, _, _, _)
\* M[r, 0] N[0, c] + ... + M[r, n - 1] N[n - 1, c]
Dot(M, N, r, c, n) ==
    IF n = 0 THEN 0 ELSE Dot(M, N, r, c, n - 1) + At(M, r, n - 1) * At(N, n - 1, c)

\* the matrix product M N
MatMul(M, N, j) == Mat(j, LAMBDA r, c : Dot(M, N, r, c, j))

RECURSIVE Fact(_)
Fact(n) == IF n = 0 THEN 1 ELSE n * Fact(n - 1)

RECURSIVE ExpmSeries(_, _, _, _)
\* the terms (ExpmTerms!/i!) M^i for i = m .. ExpmTerms, given the term of
\* order m; a term that vanishes ends the series, all later ones vanish too
ExpmSeries(M, j, m, term) ==
    IF m = ExpmTerms \/ term = MatScale(0, M, j) THEN <<term>>
    ELSE LET p == MatMul(term, M, j)
         IN  <<term>> \o ExpmSeries(M, j, m + 1, Mat(j, LAMBDA r, c : At(p, r, c) \div (m + 1)))

RECURSIVE SumAt(_, _, _, _)
\* the sum of the entries r, c of the first n matrices of terms
SumAt(terms, r, c, n) ==
    IF n = 0 THEN 0 ELSE SumAt(terms, r, c, n - 1) + At(terms[n], r, c)

RECURSIVE MaxTo(_, _)
\* the largest of 0 and -M[0, 0], ..., -M[n - 1, n - 1]
MaxTo(M, n) ==
    IF n = 0 THEN 0
    ELSE LET rest == MaxTo(M, n - 1)
             here == -At(M, n - 1, n - 1)
         IN  IF here > rest THEN here ELSE rest

\* the series I + N + N^2/2! + ... cut after the term of order ExpmTerms,
\* times ExpmTerms!, as a matrix of integers
SeriesSum(N, j) ==
    LET terms == ExpmSeries(N, j, 0, MatScale(Fact(ExpmTerms), Eye(j), j))
    IN  Mat(j, LAMBDA r, c : SumAt(terms, r, c, Len(terms)))

\* matf.expm(M) of an integer matrix M, as a matrix of floats.  M is shifted
\* by s I to a matrix without negative diagonal entries, and
\* expm(M) = expm(M + s I) / exp(s) with both exponentials from the series,
\* so that no term of a series is negative when only the diagonal of M is.
Expm(M, j) ==
    LET s   == MaxTo(M, j)
        num == SeriesSum(MatAdd(M, MatScale(s, Eye(j), j), j), j)
        den == At(SeriesSum(<<(<<s>>)>>, 1), 0, 0)
    IN  Mat(j, LAMBDA r, c : Float(At(num, r, c), den))

\* sp.expm1(k) = exp(k) - 1, from the same series as Expm
Expm1(kk) == FSub(At(Expm(<<(<<kk>>)>>, 1), 0, 0), FromInt(1))

RECURSIVE FSum(_, _)
\* v[0] + ... + v[n - 1] of floats
FSum(v, n) == IF n = 0 THEN FromInt(0) ELSE FAdd(FSum(v, n - 1), El(v, n - 1))

\* sp.sum(I, axis=0): entry c is the sum of column c
SumAxis0(T, j) == Vec(j, LAMBDA c : FSum(Vec(j, LAMBDA r : At(T, r, c)), j))

\* sp.sum(I, axis=1): entry r is the sum of row r
SumAxis1(T, j) == Vec(j, LAMBDA r : FSum(Vec(j, LAMBDA c : At(T, r, c)), j))

\* v / sp.sum(v)
Normalize(v, j) == LET s == FSum(v, j) IN Vec(j, LAMBDA i : FDiv(El(v, i), s))

(* ------------------------------- graphs -------------------------------- *)

\* A graph is [type, nodes, edges]: type is the name of its class, nodes the
\* tuple G.nodes() of node ids in iteration order, edges a function from
\* pairs <<u, v>> of node ids to the weight of the edge u -> v.  In an
\* undirected graph the edge {u, v} is kept once, under <<u, v>> with
\* u <= v.  In a multigraph the weight stands for the sum of the weights of
\* the parallel edges u -> v, which is what the adjacency matrix holds.

\* strict subclasses of the two multigraph classes
SubMultiGraph == "SubMultiGraph"
SubMultiDiGraph == "SubMultiDiGraph"

UndirectedTypes == {"Graph", "MultiGraph", SubMultiGraph}
DirectedTypes == {"DiGraph", "MultiDiGraph", SubMultiDiGraph}
MultiTypes == {"MultiGraph", "MultiDiGraph", SubMultiGraph, SubMultiDiGraph}

\* G.is_directed()
IsDirected(g) == g.type \in DirectedTypes

\* isinstance(G, nx.MultiGraph): the graph permits parallel edges
IsMultigraph(g) == g.type \in MultiTypes

NodeSet(g) == {g.nodes[i] : i \in 1 .. Len(g.nodes)}

\* G.to_directed(): a new directed graph with both u -> v and v -> u for
\* every edge {u, v}, a self loop once
ToDirectedCopy(g) ==
    LET both == DOMAIN g.edges \cup {<<e[2], e[1]>> : e \in DOMAIN g.edges}
    IN  [type  |-> IF g.type = "Graph" THEN "DiGraph"
                   ELSE IF g.type = "MultiGraph" THEN "MultiDiGraph"
                   ELSE SubMultiDiGraph,
         nodes |-> g.nodes,
         edges |-> [e \in both |-> IF e \in DOMAIN g.edges THEN g.edges[e]
                                   ELSE g.edges[<<e[2], e[1]>>]]]

\* nx.adjacency_matrix(D): rows and columns in the order of D.nodes()
AdjacencyMatrix(g) ==
    Mat(Len(g.nodes), LAMBDA r, c :
        LET e == <<g.nodes[r + 1], g.nodes[c + 1]>>
        IN  IF e \in DOMAIN g.edges THEN g.edges[e] ELSE 0)

(* ------------------------------- inputs -------------------------------- *)

RECURSIVE UpTo(_, _)
\* the subsets of S of at most m elements
UpTo(S, m) ==
    IF m = 0 THEN {{}}
    ELSE LET P == UpTo(S, m - 1) IN P \cup {s \cup {e} : s \in P, e \in S}

\* node ids 0 .. n-1, and node ids 1 .. n
NodeLists(n) == {[i \in 1 .. n |-> i - 1], [i \in 1 .. n |-> i]}

\* the pairs of distinct nodes an edge may join
PairsOf(type, nodes) ==
    LET ids == {nodes[i] : i \in 1 .. Len(nodes)}
    IN  IF type \in DirectedTypes THEN {e \in ids \X ids : e[1] # e[2]}
        ELSE {e \in ids \X ids : e[1] < e[2]}

\* The generated graphs of a class: up to MaxNodes nodes, up to MaxEdges
\* edges, and a weight range w: the edges leaving node u weigh 1 + (u mod w).
\* The range is 1, the unweighted graph, or MaxW.
GraphsOfType(type) ==
    UNION {UNION {UNION {
        {[type |-> type, nodes |-> nodes, edges |-> [e \in S |-> 1 + (e[1] % w)]]
            : w \in {1, MaxW}}
        : S \in UpTo(PairsOf(type, nodes), MaxEdges)}
        : nodes \in NodeLists(n)}
        : n \in 1 .. MaxNodes}

\* nx.path_graph(PathLen), and nx.DiGraph(nx.path_graph(PathLen))
PathGraph ==
    [type  |-> "Graph",
     nodes |-> [i \in 1 .. PathLen |-> i - 1],
     edges |-> [e \in {<<i, i + 1>> : i \in 0 .. (PathLen - 2)} |-> 1]]

PathDiGraph == ToDirectedCopy(PathGraph)

Graphs ==
    UNION {GraphsOfType(t) : t \in UndirectedTypes \cup DirectedTypes}
        \cup {PathGraph, PathDiGraph}

Functions == {"heatkernel", "pwp"}

ScipyModules == {"scipy", "scipy.linalg", "scipy.linalg.matfuncs"}

\* the runtime has scipy, or it has not
Installations == {ScipyModules, {}}

(* ------------------------------- state --------------------------------- *)

VARIABLES
    fn,         \* the function called: "heatkernel" or "pwp"
    G,          \* the argument G
    k,          \* the argument k
    installed,  \* the modules the runtime can import
    pc,         \* the block of the function body to run next
    D,          \* the local D
    A,          \* the local A
    j,          \* the local j
    I,          \* the local I
    f,          \* the local f
    d,          \* the local d
    x,          \* the returned dictionary
    exc         \* the raised exception

vars == <<fn, G, k, installed, pc, D, A, j, I, f, d, x, exc>>

\* a local not yet bound
Unbound == <<>>

Init ==
    /\ fn \in Functions
    /\ G \in Graphs
    /\ k \in 0 .. MaxK
    /\ installed \in Installations
    /\ pc = "import"
    /\ D = Unbound
    /\ A = Unbound
    /\ j = 0
    /\ I = Unbound
    /\ f = Unbound
    /\ d = Unbound
    /\ x = Unbound
    /\ exc = "none"

(* ------------------------------ the body ------------------------------- *)

\* raise ImportError("... requires SciPy ...")
ImportError == "ImportError"

\* raise Exception("... not defined for graphs with multiedges.")
MultiedgesError == "Exception: not defined for graphs with multiedges"

\* a faulty variant: the imports are deferred, a missing module is not
\* reported here
ImportScipyDeferred ==
    /\ pc = "import"
    /\ pc' = "check"
    /\ UNCHANGED <<fn, G, k, installed, D, A, j, I, f, d, x, exc>>

\* the three try/import blocks
ImportScipy ==
    /\ pc = "import"
    /\ IF ScipyModules \subseteq installed
       THEN pc' = "check" /\ exc' = exc
       ELSE pc' = "raised" /\ exc' = "ImportError"
    /\ UNCHANGED <<fn, G, k, installed, D, A, j, I, f, d, x>>

\* type(G) == nx.MultiGraph or type(G) == nx.MultiDiGraph
TypeIsMulti(g) == g.type = "MultiGraph" \/ g.type = "MultiDiGraph"

\* if type(G) == ...: raise Exception("... not defined for graphs with multiedges.")
CheckMultiedges ==
    /\ pc = "check"
    /\ IF TypeIsMulti(G)
       THEN pc' = "raised" /\ exc' = MultiedgesError
       ELSE pc' = "direct" /\ exc' = exc
    /\ UNCHANGED <<fn, G, k, installed, D, A, j, I, f, d, x>>

\* a faulty variant: the graph itself is made directed
ToDirectedInPlace ==
    /\ pc = "direct"
    /\ G' = IF ~IsDirected(G) THEN ToDirectedCopy(G) ELSE G
    /\ D' = G'
    /\ pc' = "adjacency"
    /\ UNCHANGED <<fn, k, installed, A, j, I, f, d, x, exc>>

\* a faulty variant: an undirected graph is used as it is, each edge {u, v}
\* read as the one directed edge u -> v
ToDirectedSkipped ==
    /\ pc = "direct"
    /\ D' = G
    /\ pc' = "adjacency"
    /\ UNCHANGED <<fn, G, k, installed, A, j, I, f, d, x, exc>>

\* if not G.is_directed(): D = G.to_directed() else: D = G
ToDirected ==
    /\ pc = "direct"
    /\ D' = IF ~IsDirected(G) THEN ToDirectedCopy(G) ELSE G
    /\ pc' = "adjacency"
    /\ UNCHANGED <<fn, G, k, installed, A, j, I, f, d, x, exc>>

\* A = nx.adjacency_matrix(D); A = sp.transpose(A); j = sp.shape(A)[1]
Adjacency ==
    /\ pc = "adjacency"
    /\ j' = Len(D.nodes)
    /\ A' = Transpose(AdjacencyMatrix(D), Len(D.nodes))
    /\ pc' = "transform"
    /\ UNCHANGED <<fn, G, k, installed, D, I, f, d, x, exc>>

\* a faulty variant: k scales the identity only, expm(A - k * eye)
HeatkernelMatrixScaledEye(a, kk, jj) == Expm(MatSub(a, MatScale(kk, Eye(jj), jj), jj), jj)

\* matf.expm(k * (A - sp.eye(j, j)))
HeatkernelMatrix(a, kk, jj) == Expm(MatScale(kk, MatSub(a, Eye(jj), jj), jj), jj)

\* (matf.expm(k * A) - sp.eye(j, j)) / (sp.expm1(k))
PwpMatrix(a, kk, jj) ==
    LET E == Expm(MatScale(kk, a, jj), jj)
        den == Expm1(kk)
    IN  Mat(jj, LAMBDA r, c :
            FDiv(FSub(At(E, r, c), FromInt(At(Eye(jj), r, c))), den))

\* heatkernel: I = matf.expm(k * (A - sp.eye(j, j)))
HeatkernelTransform ==
    /\ pc = "transform"
    /\ fn = "heatkernel"
    /\ I' = HeatkernelMatrix(A, k, j)
    /\ pc' = "influences"
    /\ UNCHANGED <<fn, G, k, installed, D, A, j, f, d, x, exc>>

\* pwp: I = (matf.expm(k * A) - sp.eye(j, j)) / (sp.expm1(k))
PwpTransform ==
    /\ pc = "transform"
    /\ fn = "pwp"
    /\ I' = PwpMatrix(A, k, j)
    /\ pc' = "influences"
    /\ UNCHANGED <<fn, G, k, installed, D, A, j, f, d, x, exc>>

\* a faulty variant: the influences summed along axis 1 as well
InfluencesVectorAxis1(T, jj) == Normalize(SumAxis1(T, jj), jj)

\* f = sp.sum(I, axis=0); f = f/sp.sum(f)
InfluencesVector(T, jj) == Normalize(SumAxis0(T, jj), jj)

\* d = sp.sum(I, axis=1); d = d/sp.sum(d)
DependencesVector(T, jj) == Normalize(SumAxis1(T, jj), jj)

Influences ==
    /\ pc = "influences"
    /\ f' = InfluencesVector(I, j)
    /\ pc' = "dependences"
    /\ UNCHANGED <<fn, G, k, installed, D, A, j, I, d, x, exc>>

Dependences ==
    /\ pc = "dependences"
    /\ d' = DependencesVector(I, j)
    /\ pc' = "result"
    /\ UNCHANGED <<fn, G, k, installed, D, A, j, I, f, x, exc>>

\* {i: number for number, i in zip(v, range(j))}
ResultDict(v, jj) == [i \in Range(jj) |-> El(v, i)]

\* x = {'influences': fdict, 'dependences': ddict}; return x
Return ==
    /\ pc = "result"
    /\ x' = [influences |-> ResultDict(f, j), dependences |-> ResultDict(d, j)]
    /\ pc' = "returned"
    /\ UNCHANGED <<fn, G, k, installed, D, A, j, I, f, d, exc>>

Next ==
    \/ ImportScipy
    \/ CheckMultiedges
    \/ ToDirected
    \/ Adjacency
    \/ HeatkernelTransform
    \/ PwpTransform
    \/ Influences
    \/ Dependences
    \/ Return

Spec == Init /\ [][Next]_vars

\* The whole body on a graph the type check lets through, as one function:
\* the dictionary heatkernel(g, kk) or pwp(g, kk) returns.
Result(fnn, g, kk) ==
    LET dd == IF ~IsDirected(g) THEN ToDirectedCopy(g) ELSE g
        jj == Len(dd.nodes)
        a  == Transpose(AdjacencyMatrix(dd), jj)
        t  == IF fnn = "heatkernel" THEN HeatkernelMatrix(a, kk, jj)
              ELSE PwpMatrix(a, kk, jj)
    IN  [influences  |-> ResultDict(InfluencesVector(t, jj), jj),
         dependences |-> ResultDict(DependencesVector(t, jj), jj)]

(* ------------------------------ properties ----------------------------- *)

Returned == pc = "returned"

Raised == pc = "raised"

\* a graph of one of the two single-edge classes
IsSimple(g) == g.type \in {"Graph", "DiGraph"}

HasScipy == ScipyModules \subseteq installed

\* the values of a returned mapping, in key order
Values(m) == Vec(Cardinality(DOMAIN m), LAMBDA i : m[i])

\* the run has ended
Ended == Returned \/ Raised

\* C1: when heatkernel or pwp returns for a simple graph, the keys of
\* 'influences' and the keys of 'dependences' are exactly the nodes of G.
C1_KeysAreNodes ==
    (Returned /\ IsSimple(G)) =>
        /\ DOMAIN x.influences = NodeSet(G)
        /\ DOMAIN x.dependences = NodeSet(G)

\* C2: with the libraries installed, a call on a graph of a multigraph class,
\* subclasses included, ends in the multiedges exception and runs no step
\* after the type check.
C2_MultigraphRejected ==
    (IsMultigraph(G) /\ HasScipy) =>
        /\ pc \in {"import", "check", "raised"}
        /\ Raised => exc = MultiedgesError

\* C3: on a simple graph with nodes and no edges, for k > 0, both functions
\* end in a DegenerateInputError and return no mapping.
C3_EdgelessRaises ==
    (IsSimple(G) /\ DOMAIN G.edges = {} /\ k > 0 /\ HasScipy /\ Ended) =>
        (Raised /\ exc = "DegenerateInputError")

\* C4: pwp with k = 0 on a simple graph ends in a DegenerateParameterError
\* and returns no mapping.
C4_PwpZeroRaises ==
    (fn = "pwp" /\ k = 0 /\ IsSimple(G) /\ HasScipy /\ Ended) =>
        (Raised /\ exc = "DegenerateParameterError")

\* C5: heatkernel with k = 0 on a simple graph of n >= 1 nodes returns n
\* influences and n dependences, every one of them 1/n, whatever the edges
\* and their weights.
C5_HeatkernelZeroUniform ==
    (Returned /\ fn = "heatkernel" /\ k = 0 /\ IsSimple(G)) =>
        LET n == Len(G.nodes)
        IN  /\ DOMAIN x.influences = Range(n)
            /\ DOMAIN x.dependences = Range(n)
            /\ \A i \in Range(n) :
                /\ x.influences[i] = Float(1, n)
                /\ x.dependences[i] = Float(1, n)

\* C5 happens: heatkernel has returned for k = 0 on a simple graph with at
\* least two nodes and an edge of weight above 1.
C5_Witness ==
    /\ Returned /\ fn = "heatkernel" /\ k = 0 /\ IsSimple(G)
    /\ Len(G.nodes) >= 2
    /\ \E e \in DOMAIN G.edges : G.edges[e] > 1

\* C6: whenever heatkernel or pwp returns for a simple graph, the influences
\* sum to 1 and the dependences sum to 1.
C6_SumsToOne ==
    (Returned /\ IsSimple(G)) =>
        /\ FSum(Values(x.influences), j) = FromInt(1)
        /\ FSum(Values(x.dependences), j) = FromInt(1)

\* C7: no step of heatkernel or pwp changes the graph G it was given: its
\* class, nodes, edges and weights stay as they were.
C7_GraphUnchanged == [][G' = G]_vars

\* C7 happens: a call on an undirected graph with an edge has returned, and
\* the directed form it worked on is another graph than G.
C7_Witness ==
    /\ Returned /\ G.type = "Graph" /\ DOMAIN G.edges # {}
    /\ D.type = "DiGraph"
    /\ DOMAIN D.edges # DOMAIN G.edges

\* C8: for the undirected path graph on PathLen = 4 nodes and k > 0, every
\* edge is taken in both directions, and in the returned scores node 0
\* equals node 3 and node 1 equals node 2, in influence and in dependence.
C8_PathSymmetry ==
    (Returned /\ G = PathGraph /\ k > 0) =>
        /\ \A e \in DOMAIN G.edges :
            /\ e \in DOMAIN D.edges /\ D.edges[e] = G.edges[e]
            /\ <<e[2], e[1]>> \in DOMAIN D.edges /\ D.edges[<<e[2], e[1]>>] = G.edges[e]
        /\ \A i \in Range(PathLen) :
            /\ IsFinite(x.influences[i]) /\ IsFinite(x.dependences[i])
            /\ x.influences[i] = x.influences[PathLen - 1 - i]
            /\ x.dependences[i] = x.dependences[PathLen - 1 - i]

\* C8 happens: a call on the undirected path graph with k > 0 has returned,
\* and the end nodes score differently from the interior nodes.
C8_Witness ==
    /\ Returned /\ G = PathGraph /\ k > 0
    /\ x.influences[0] # x.influences[1]
    /\ x.dependences[0] # x.dependences[1]

Reverse(g) ==
    [type  |-> g.type,
     nodes |-> g.nodes,
     edges |-> [e \in {<<p[2], p[1]>> : p \in DOMAIN g.edges} |-> g.edges[<<e[2], e[1]>>]]]

\* C10: for a simple directed graph G and its reversal R, the influences
\* returned for G are the dependences returned for R, and the dependences
\* returned for G are the influences returned for R, key by key (a NaN in one
\* is a NaN in the other).
C10_ReversalDuality ==
    (Returned /\ G.type = "DiGraph") =>
        LET r == Result(fn, Reverse(G), k)
        IN  /\ x.influences = r.dependences
            /\ x.dependences = r.influences

\* C10 happens: a call on a weighted directed graph that is not its own
\* reversal has returned finite scores, the influences other than the
\* dependences.
C10_Witness ==
    /\ Returned /\ G.type = "DiGraph" /\ Reverse(G) # G
    /\ \E e \in DOMAIN G.edges : G.edges[e] > 1
    /\ \A i \in Range(j) : IsFinite(x.influences[i])
    /\ x.influences # x.dependences

====
